---- MODULE Spec2Model ----
(***************************************************************************)
(* Model of the browser agent's run (runBrowserAgent in the TypeScript     *)
(* source): the instruction list produced by generateInstructions, the     *)
(* step loop over {action, details} entries, the run state                 *)
(* (currentUIcode, iterationCount), the artifacts written with             *)
(* fs.writeFileSync, and the calls made to the page and to refineUICode.   *)
(***************************************************************************)
EXTENDS Integers, Sequences, FiniteSets, TLC

VARIABLES
    pc,             \* position of runBrowserAgent: start, launch, loop, threw, caught, done
    instructions,   \* the array returned by generateInstructions
    idx,            \* position of the for-of iterator (1-based, the step being executed)
    currentUIcode,  \* let currentUIcode
    iterationCount, \* let iterationCount
    files,          \* artifacts on disk written by this run: filename -> content
    log,            \* every call made to the page, the provider, fs and console, in order
    error,          \* the error a rejected promise carries ("none" when none)
    exitCode        \* the status the process exits with (process.exitCode, 0 unless set)

vars == <<pc, instructions, idx, currentUIcode, iterationCount, files, log, error, exitCode>>

(***************************************************************************)
(* Bounds of the model.                                                    *)
(***************************************************************************)
MaxSteps == 3

(***************************************************************************)
(* JavaScript values that can stand in a step's details.                   *)
(***************************************************************************)
Keys == {"selector", "text", "refinement"}

NoFields == [k \in Keys |-> ""]

Null == [t |-> "null", s |-> "", n |-> 0, keys |-> {}, f |-> NoFields]

Undefined == [t |-> "undefined", s |-> "", n |-> 0, keys |-> {}, f |-> NoFields]

Str(s) == [t |-> "string", s |-> s, n |-> 0, keys |-> {}, f |-> NoFields]

Num(n) == [t |-> "number", s |-> "", n |-> n, keys |-> {}, f |-> NoFields]

Obj(keys, f) == [t |-> "object", s |-> "", n |-> 0, keys |-> keys,
                 f |-> [k \in Keys |-> IF k \in keys THEN f[k] ELSE ""]]

\* typeof v
TypeOf(v) == IF v.t = "null" THEN "object" ELSE v.t

\* v.k raises a TypeError when v is null or undefined
GetThrows(v) == v.t \in {"null", "undefined"}

\* v.k when it does not raise: the property's value, or undefined
Get(v, k) == IF v.t = "object" /\ k \in v.keys THEN Str(v.f[k]) ELSE Undefined

\* the truthiness of v in a condition
Truthy(v) ==
    CASE v.t = "string" -> v.s # ""
      [] v.t = "number" -> v.n # 0
      [] v.t = "object" -> TRUE
      [] OTHER -> FALSE

\* the text a template literal or a string parameter shows for v
Text(v) ==
    CASE v.t = "string" -> v.s
      [] v.t = "number" -> ToString(v.n)
      [] v.t = "object" -> "[object Object]"
      [] v.t = "null" -> "null"
      [] OTHER -> "undefined"

\* parseInt(v), as the text of the resulting number
ParseInt(v) ==
    CASE v.t = "number" -> ToString(v.n)
      [] v.t = "string" /\ v.s \in {"1000", "2000", "3000"} -> v.s
      [] OTHER -> "NaN"

(***************************************************************************)
(* The steps an instruction list is drawn from.                            *)
(***************************************************************************)
Step(action, details) == [action |-> action, details |-> details]

TypeDetails ==
    { Null, Undefined, Str("hello"), Num(5),
      Obj({"text"}, [NoFields EXCEPT !["text"] = "hi"]),
      Obj({"selector"}, [NoFields EXCEPT !["selector"] = "#t"]),
      Obj({"selector", "text"}, [NoFields EXCEPT !["text"] = "hi"]),
      Obj({"selector", "text"}, [NoFields EXCEPT !["selector"] = "#t"]),
      Obj({"selector", "text"}, [NoFields EXCEPT !["selector"] = "#t", !["text"] = "hi"]) }

RefineDetails ==
    { Null, Str("R1"),
      Obj({}, NoFields),
      Obj({"refinement"}, NoFields),
      Obj({"refinement"}, [NoFields EXCEPT !["refinement"] = "R1"]) }

Steps ==
    { Step("navigate", Str("https://v0.dev/")),
      Step("wait", Num(1000)),
      Step("click", Str("a")),
      Step("extractCode", Str(".ui")),
      Step("scroll", Num(1)) }
    \cup { Step("type", d) : d \in TypeDetails }
    \cup { Step("refineCode", d) : d \in RefineDetails }

RECURSIVE Lists(_)
Lists(n) ==
    IF n = 0 THEN { <<>> }
    ELSE LET shorter == Lists(n - 1)
         IN  shorter \cup { Append(l, s) : l \in { m \in shorter : Len(m) = n - 1 }, s \in Steps }

\* what the page and the model behind the provider can answer
Markups == { "", "<a/>", "<b/>" }

NoContent == "<no content>"

Contents == { NoContent, "  ", "<c/>", " <d/> " }

(***************************************************************************)
(* The record of one call.                                                 *)
(***************************************************************************)
Ev(op, a1, a2, ok, res) == [step |-> idx, op |-> op, a1 |-> a1, a2 |-> a2, ok |-> ok, res |-> res]

Init ==
    /\ pc = "start"
    /\ instructions = <<>>
    /\ idx = 0
    /\ currentUIcode = ""
    /\ iterationCount = 0
    /\ files = <<>>
    /\ log = <<>>
    /\ error = "none"
    /\ exitCode = 0

(***************************************************************************)
(* Helpers of the step loop.                                               *)
(***************************************************************************)
step == instructions[idx]

action == step.action

details == step.details

InLoop == pc = "loop" /\ idx >= 1 /\ idx <= Len(instructions)

\* a rejection swallowed instead of thrown
AwaitPcSwallowed(ok) == "loop"

\* an awaited call that resolves lets the loop go on, one that rejects
\* throws out of runBrowserAgent
AwaitPc(ok) == IF ok THEN "loop" ELSE "threw"

\* the iterator moved past the next step as well
AwaitIdxSkip(ok) == IF ok THEN idx + 2 ELSE idx

\* the for-of iterator moves to the next step once the step's calls resolved
AwaitIdx(ok) == IF ok THEN idx + 1 ELSE idx

\* typeof details === "object" && details.selector && details.text
TypeDetailsOk(d) ==
    IF TypeOf(d) # "object" THEN "no"
    ELSE IF GetThrows(d) THEN "throw"
    ELSE IF Truthy(Get(d, "selector")) /\ Truthy(Get(d, "text")) THEN "yes"
    ELSE "no"

\* typeof details === "object" && details.refinement
RefineDetailsOk(d) ==
    IF TypeOf(d) # "object" THEN "no"
    ELSE IF GetThrows(d) THEN "throw"
    ELSE IF Truthy(Get(d, "refinement")) THEN "yes"
    ELSE "no"

\* the whole details passed where details.refinement is meant
RefinementArgWhole(d) == Text(d)

\* details.refinement, as passed to refineUICode
RefinementArg(d) == Text(Get(d, "refinement"))

\* if (currentUIcode), with the test dropped
HasCodeAlways(code) == TRUE

\* if (currentUIcode)
HasCode(code) == Truthy(Str(code))

\* String.prototype.trim on the contents the model can answer
Trim(s) ==
    CASE s = "  " -> ""
      [] s = " <d/> " -> "<d/>"
      [] OTHER -> s

\* response?.choices[0]?.message?.content?.trim() ?? ""
refineUICode(content) == IF content = NoContent THEN "" ELSE Trim(content)

ExtractedFilename == "extracted_ui.html"

\* the filename built before the counter is incremented
RefinedFilenamePrevious(n) == "refined_ui_iteration_" \o ToString(n - 1) \o ".html"

\* a filename without the iteration counter
RefinedFilenameFixed(n) == "refined_ui_iteration.html"

\* `refined_ui_iteration_${iterationCount}.html`
RefinedFilename(n) == "refined_ui_iteration_" \o ToString(n) \o ".html"

\* iterationCount++ done twice
IncrementTwice(n) == n + 2

\* iterationCount++
Increment(n) == n + 1

\* fs.writeFileSync(path.join(__dirname, name), content, "utf8")
WriteFile(fs, name, content) == (name :> content) @@ fs

(***************************************************************************)
(* generateInstructions and the start of runBrowserAgent.                  *)
(***************************************************************************)
\* generateInstructions with the parse failure logged and an empty list
\* returned instead of the error thrown
GenerateInstructionsSwallowed ==
    /\ pc = "start"
    /\ \/ /\ instructions' \in Lists(MaxSteps)
          /\ pc' = "launch"
          /\ UNCHANGED <<log, error>>
       \/ /\ pc' = "launch"
          /\ instructions' = <<>>
          /\ log' = log \o << Ev("console.error", "Failed to parse instructions", "", TRUE, "") >>
          /\ UNCHANGED error
    /\ UNCHANGED <<idx, currentUIcode, iterationCount, files>>
    /\ UNCHANGED exitCode

GenerateInstructions ==
    /\ pc = "start"
    /\ \/ /\ instructions' \in Lists(MaxSteps)
          /\ pc' = "launch"
          /\ UNCHANGED <<log, error>>
       \/ /\ pc' = "threw"
          /\ error' = "Invalid JSON from LLM"
          /\ log' = log \o << Ev("console.error", "Failed to parse instructions", "", TRUE, "") >>
          /\ UNCHANGED instructions
    /\ UNCHANGED <<idx, currentUIcode, iterationCount, files>>
    /\ UNCHANGED exitCode

LaunchBrowser ==
    /\ pc = "launch"
    /\ pc' = "loop"
    /\ idx' = 1
    /\ currentUIcode' = ""
    /\ iterationCount' = 0
    /\ log' = log \o << Ev("launch", "", "", TRUE, "") >>
    /\ UNCHANGED <<instructions, files, error>>
    /\ UNCHANGED exitCode

(***************************************************************************)
(* The branches of the step loop.                                          *)
(***************************************************************************)
\* the navigate branch discarding the extracted code of the page it leaves
NavigateResets ==
    /\ InLoop /\ action = "navigate"
    /\ \E ok \in BOOLEAN :
        /\ log' = log \o << Ev("goto", Text(details), "", ok, "") >>
                      \o (IF ok THEN << Ev("waitForTimeout", "2000", "", TRUE, "") >> ELSE <<>>)
        /\ pc' = AwaitPc(ok)
        /\ idx' = AwaitIdx(ok)
        /\ error' = IF ok THEN error ELSE "TimeoutError"
    /\ currentUIcode' = ""
    /\ UNCHANGED <<instructions, iterationCount, files>>
    /\ UNCHANGED exitCode

Navigate ==
    /\ InLoop /\ action = "navigate"
    /\ \E ok \in BOOLEAN :
        /\ log' = log \o << Ev("goto", Text(details), "", ok, "") >>
                      \o (IF ok THEN << Ev("waitForTimeout", "2000", "", TRUE, "") >> ELSE <<>>)
        /\ pc' = AwaitPc(ok)
        /\ idx' = AwaitIdx(ok)
        /\ error' = IF ok THEN error ELSE "TimeoutError"
    /\ UNCHANGED <<instructions, currentUIcode, iterationCount, files>>
    /\ UNCHANGED exitCode

Type ==
    /\ InLoop /\ action = "type"
    /\ \/ /\ TypeDetailsOk(details) = "yes"
          /\ \E ok \in BOOLEAN :
              /\ log' = log \o << Ev("fill", Text(Get(details, "selector")),
                                     Text(Get(details, "text")), ok, "") >>
                            \o (IF ok THEN << Ev("waitForTimeout", "1000", "", TRUE, "") >> ELSE <<>>)
              /\ pc' = AwaitPc(ok)
              /\ idx' = AwaitIdx(ok)
              /\ error' = IF ok THEN error ELSE "TimeoutError"
       \/ /\ TypeDetailsOk(details) = "no"
          /\ log' = log \o << Ev("console.warn", "Invalid details for type action:", Text(details), TRUE, "") >>
          /\ pc' = "loop"
          /\ idx' = idx + 1
          /\ UNCHANGED error
       \/ /\ TypeDetailsOk(details) = "throw"
          /\ pc' = "threw"
          /\ error' = "TypeError"
          /\ UNCHANGED <<idx, log>>
    /\ UNCHANGED <<instructions, currentUIcode, iterationCount, files>>
    /\ UNCHANGED exitCode

Click ==
    /\ InLoop /\ action = "click"
    /\ \E ok \in BOOLEAN :
        /\ log' = log \o << Ev("click", Text(details), "10000", ok, "") >>
                      \o (IF ok THEN << Ev("waitForTimeout", "2000", "", TRUE, "") >> ELSE <<>>)
        /\ pc' = AwaitPc(ok)
        /\ idx' = AwaitIdx(ok)
        /\ error' = IF ok THEN error ELSE "TimeoutError"
    /\ UNCHANGED <<instructions, currentUIcode, iterationCount, files>>
    /\ UNCHANGED exitCode

Wait ==
    /\ InLoop /\ action = "wait"
    /\ log' = log \o << Ev("waitForTimeout", ParseInt(details), "", TRUE, "") >>
    /\ pc' = "loop"
    /\ idx' = idx + 1
    /\ UNCHANGED <<instructions, currentUIcode, iterationCount, files, error>>
    /\ UNCHANGED exitCode

\* the extractCode branch with currentUIcode cleared before the wait
ExtractCodeEager ==
    /\ InLoop /\ action = "extractCode"
    /\ \/ /\ log' = log \o << Ev("waitForSelector", Text(details), "10000", FALSE, "") >>
          /\ pc' = AwaitPc(FALSE)
          /\ idx' = AwaitIdx(FALSE)
          /\ error' = "TimeoutError"
          /\ currentUIcode' = ""
          /\ UNCHANGED files
       \/ \E markup \in Markups :
          /\ currentUIcode' = markup
          /\ files' = WriteFile(files, ExtractedFilename, markup)
          /\ log' = log \o << Ev("waitForSelector", Text(details), "10000", TRUE, ""),
                              Ev("innerHTML", "", "", TRUE, markup),
                              Ev("writeFileSync", ExtractedFilename, markup, TRUE, "") >>
          /\ pc' = AwaitPc(TRUE)
          /\ idx' = AwaitIdx(TRUE)
          /\ UNCHANGED error
    /\ UNCHANGED <<instructions, iterationCount>>
    /\ UNCHANGED exitCode

\* the extractCode branch with the timeout caught: an empty extraction is
\* stored and the loop goes on
ExtractCodeTolerant ==
    /\ InLoop /\ action = "extractCode"
    /\ \/ /\ currentUIcode' = ""
          /\ files' = WriteFile(files, ExtractedFilename, "")
          /\ log' = log \o << Ev("waitForSelector", Text(details), "10000", FALSE, ""),
                              Ev("writeFileSync", ExtractedFilename, "", TRUE, "") >>
          /\ pc' = "loop"
          /\ idx' = idx + 1
          /\ UNCHANGED error
       \/ \E markup \in Markups :
          /\ currentUIcode' = markup
          /\ files' = WriteFile(files, ExtractedFilename, markup)
          /\ log' = log \o << Ev("waitForSelector", Text(details), "10000", TRUE, ""),
                              Ev("innerHTML", "", "", TRUE, markup),
                              Ev("writeFileSync", ExtractedFilename, markup, TRUE, "") >>
          /\ pc' = AwaitPc(TRUE)
          /\ idx' = AwaitIdx(TRUE)
          /\ UNCHANGED error
    /\ UNCHANGED <<instructions, iterationCount>>
    /\ UNCHANGED exitCode

ExtractCode ==
    /\ InLoop /\ action = "extractCode"
    /\ \/ /\ log' = log \o << Ev("waitForSelector", Text(details), "10000", FALSE, "") >>
          /\ pc' = AwaitPc(FALSE)
          /\ idx' = AwaitIdx(FALSE)
          /\ error' = "TimeoutError"
          /\ UNCHANGED <<currentUIcode, files>>
       \/ \E markup \in Markups :
          /\ currentUIcode' = markup
          /\ files' = WriteFile(files, ExtractedFilename, markup)
          /\ log' = log \o << Ev("waitForSelector", Text(details), "10000", TRUE, ""),
                              Ev("innerHTML", "", "", TRUE, markup),
                              Ev("writeFileSync", ExtractedFilename, markup, TRUE, "") >>
          /\ pc' = AwaitPc(TRUE)
          /\ idx' = AwaitIdx(TRUE)
          /\ UNCHANGED error
    /\ UNCHANGED <<instructions, iterationCount>>
    /\ UNCHANGED exitCode

RefineCode ==
    /\ InLoop /\ action = "refineCode"
    /\ \/ /\ ~HasCode(currentUIcode)
          /\ log' = log \o << Ev("console.warn", "No UI code available to refine. Use extractCode first.", "", TRUE, "") >>
          /\ pc' = "loop"
          /\ idx' = idx + 1
          /\ UNCHANGED <<currentUIcode, iterationCount, files, error>>
       \/ /\ HasCode(currentUIcode)
          /\ RefineDetailsOk(details) = "no"
          /\ log' = log \o << Ev("console.warn", "Invalid details for refineCode action:", Text(details), TRUE, "") >>
          /\ pc' = "loop"
          /\ idx' = idx + 1
          /\ UNCHANGED <<currentUIcode, iterationCount, files, error>>
       \/ /\ HasCode(currentUIcode)
          /\ RefineDetailsOk(details) = "throw"
          /\ pc' = "threw"
          /\ error' = "TypeError"
          /\ UNCHANGED <<idx, log, currentUIcode, iterationCount, files>>
       \/ /\ HasCode(currentUIcode)
          /\ RefineDetailsOk(details) = "yes"
          /\ \/ /\ log' = log \o << Ev("refineUICode", currentUIcode,
                                       RefinementArg(details), FALSE, "") >>
                /\ pc' = AwaitPc(FALSE)
                /\ idx' = AwaitIdx(FALSE)
                /\ error' = "APIError"
                /\ UNCHANGED <<currentUIcode, iterationCount, files>>
             \/ \E content \in Contents :
                LET refinedCode == refineUICode(content)
                    filename == RefinedFilename(Increment(iterationCount))
                IN  /\ currentUIcode' = refinedCode
                    /\ iterationCount' = Increment(iterationCount)
                    /\ files' = WriteFile(files, filename, refinedCode)
                    /\ log' = log \o << Ev("refineUICode", currentUIcode,
                                           RefinementArg(details), TRUE, refinedCode),
                                        Ev("writeFileSync", filename, refinedCode, TRUE, "") >>
                    /\ pc' = AwaitPc(TRUE)
                    /\ idx' = AwaitIdx(TRUE)
                    /\ UNCHANGED error
    /\ UNCHANGED instructions
    /\ UNCHANGED exitCode

\* the else branch raising instead of warning
UnknownActionFatal ==
    /\ InLoop
    /\ action \notin {"navigate", "type", "click", "wait", "extractCode", "refineCode"}
    /\ pc' = "threw"
    /\ error' = "Unknown action"
    /\ UNCHANGED <<instructions, idx, currentUIcode, iterationCount, files, log>>
    /\ UNCHANGED exitCode

UnknownAction ==
    /\ InLoop
    /\ action \notin {"navigate", "type", "click", "wait", "extractCode", "refineCode"}
    /\ log' = log \o << Ev("console.warn", "Unknown action:", action, TRUE, "") >>
    /\ pc' = "loop"
    /\ idx' = idx + 1
    /\ UNCHANGED <<instructions, currentUIcode, iterationCount, files, error>>
    /\ UNCHANGED exitCode

(***************************************************************************)
(* The end of runBrowserAgent and the top-level catch.                     *)
(***************************************************************************)
Screenshot ==
    /\ pc = "loop" /\ idx > Len(instructions)
    /\ log' = log \o << Ev("screenshot", "final_ui.png", "", TRUE, "") >>
                  \o (IF HasCode(currentUIcode)
                      THEN << Ev("console.log", "Final refined UI code:", currentUIcode, TRUE, "") >>
                      ELSE <<>>)
    /\ pc' = "done"
    /\ UNCHANGED <<instructions, idx, currentUIcode, iterationCount, files, error>>
    /\ UNCHANGED exitCode

\* the screenshot taken on the failure path as well
CatchErrorWithScreenshot ==
    /\ pc = "threw"
    /\ log' = log \o << Ev("screenshot", "final_ui.png", "", TRUE, ""),
                        Ev("console.error", "Error running browser agent:", error, TRUE, "") >>
    /\ pc' = "caught"
    /\ UNCHANGED <<instructions, idx, currentUIcode, iterationCount, files, error>>
    /\ UNCHANGED exitCode

CatchError ==
    /\ pc = "threw"
    /\ log' = log \o << Ev("console.error", "Error running browser agent:", error, TRUE, "") >>
    /\ pc' = "caught"
    /\ UNCHANGED <<instructions, idx, currentUIcode, iterationCount, files, error>>
    /\ UNCHANGED exitCode

Next ==
    \/ GenerateInstructions
    \/ LaunchBrowser
    \/ Navigate
    \/ Type
    \/ Click
    \/ Wait
    \/ ExtractCode
    \/ RefineCode
    \/ UnknownAction
    \/ Screenshot
    \/ CatchError

Spec == Init /\ [][Next]_vars

(***************************************************************************)
(* Observations on the record of calls, used to state the properties.      *)
(***************************************************************************)
Calls(l, ops) == SelectSeq(l, LAMBDA e : e.op \in ops)

\* the calls to the Refinement Provider
RefineCalls(l) == Calls(l, {"refineUICode"})

\* the artifact writes
Writes(l) == Calls(l, {"writeFileSync"})

\* the calls to the browser page
BrowserCalls(l) ==
    Calls(l, {"goto", "fill", "click", "waitForTimeout", "waitForSelector", "innerHTML", "screenshot"})

\* everything but console output
Effects(l) == SelectSeq(l, LAMBDA e : e.op \notin {"console.warn", "console.error", "console.log"})

\* an extractCode step has succeeded
ExtractSucceeded == \E i \in DOMAIN log : log[i].op = "innerHTML"

\* the events the step being taken appends to the record
Appended == SubSeq(log', Len(log) + 1, Len(log'))

\* a details value with a usable refinement key
UsableRefinement(d) == d.t = "object" /\ "refinement" \in d.keys /\ d.f["refinement"] # ""

\* a details value with a usable selector and text
UsableTypeDetails(d) ==
    /\ d.t = "object"
    /\ {"selector", "text"} \subseteq d.keys
    /\ d.f["selector"] # "" /\ d.f["text"] # ""

\* the loop went on to the next step, without raising
WentOn == pc' = "loop" /\ idx' = idx + 1 /\ error' = error

(***************************************************************************)
(* C1: iterationCount starts at 0 and changes only by +1, and only in a    *)
(* refineCode step taken with non-empty code and a refinement present, in  *)
(* which the Refinement Provider returned; nothing decrements or resets it.*)
(***************************************************************************)
C1_IterationCountSteps ==
    /\ iterationCount = 0
    /\ [][ \/ iterationCount' = iterationCount
           \/ /\ iterationCount' = iterationCount + 1
              /\ InLoop /\ action = "refineCode"
              /\ currentUIcode # ""
              /\ UsableRefinement(details)
              /\ Len(RefineCalls(Appended)) = 1
              /\ RefineCalls(Appended)[1].ok ]_vars

C1_Witness == pc = "done" /\ iterationCount = 2

(***************************************************************************)
(* C2: a refineCode step taken while no extractCode step has succeeded is  *)
(* a no-op: the code stays empty, the count is unchanged, the provider is  *)
(* not called, nothing is written, and the loop goes on to the next step.  *)
(***************************************************************************)
C2_RefineBeforeExtractNoOp ==
    [][ (InLoop /\ action = "refineCode" /\ ~ExtractSucceeded) =>
            /\ currentUIcode = "" /\ currentUIcode' = ""
            /\ iterationCount' = iterationCount
            /\ Effects(Appended) = <<>>
            /\ files' = files
            /\ WentOn ]_vars

C2_Witness ==
    /\ pc = "loop" /\ idx = 3
    /\ instructions[1].action = "refineCode" /\ UsableRefinement(instructions[1].details)
    /\ instructions[2].action = "refineCode" /\ instructions[2].details = Null
    /\ ~ExtractSucceeded

\* a step whose details has the shape its action requires
WellFormed(s) ==
    CASE s.action \in {"navigate", "click", "extractCode"} -> s.details.t = "string"
      [] s.action = "wait" -> s.details.t = "number"
      [] s.action = "type" -> UsableTypeDetails(s.details)
      [] s.action = "refineCode" -> UsableRefinement(s.details)
      [] OTHER -> FALSE

\* the run is past generateInstructions, over a list of well-formed steps
\* in which an extractCode step precedes each refineCode step
RunsWellFormedList ==
    /\ pc # "start" /\ error # "Invalid JSON from LLM"
    /\ \A i \in DOMAIN instructions : WellFormed(instructions[i])
    /\ \A i \in DOMAIN instructions :
          instructions[i].action = "refineCode" =>
              \E j \in 1..(i - 1) : instructions[j].action = "extractCode"

NoBrowserTimeout == \A i \in DOMAIN BrowserCalls(log) : BrowserCalls(log)[i].ok

NumRefineSteps == Cardinality({ i \in DOMAIN instructions : instructions[i].action = "refineCode" })

(***************************************************************************)
(* C3: over a list of well-formed steps in which no browser call times out *)
(* and an extractCode step precedes each refineCode step, the run never    *)
(* throws and ends with iterationCount equal to the number of refineCode   *)
(* steps, whatever innerHTML and the Refinement Provider return.           *)
(***************************************************************************)
C3_CountEqualsRefineSteps ==
    (RunsWellFormedList /\ NoBrowserTimeout) =>
        /\ pc \notin {"threw", "caught"}
        /\ (pc = "done" => iterationCount = NumRefineSteps)

(***************************************************************************)
(* C4: a click step that times out throws out of the step loop: the steps  *)
(* before it were executed in order, and nothing after it is executed (no  *)
(* browser call, no provider call, no write, no change of the code or of   *)
(* the count).                                                             *)
(***************************************************************************)
ClickTimedOut(l) == \E i \in DOMAIN l : l[i].op = "click" /\ ~l[i].ok

C4_ClickTimeoutAborts ==
    [][ /\ (InLoop /\ action = "click" /\ ClickTimedOut(Appended)) =>
              /\ pc' = "threw" /\ idx' = idx
              /\ \A k \in 1..(idx - 1) : \E i \in DOMAIN log : log[i].step = k
              /\ \A i, j \in DOMAIN log' : i <= j => log'[i].step <= log'[j].step
              /\ \A i \in DOMAIN log' : log'[i].step <= idx
        /\ ClickTimedOut(log) =>
              /\ pc \in {"threw", "caught"} /\ pc' \in {"threw", "caught"}
              /\ Effects(Appended) = <<>>
              /\ UNCHANGED <<idx, instructions, currentUIcode, iterationCount, files>> ]_vars

C4_Witness ==
    /\ pc = "caught" /\ ClickTimedOut(log)
    /\ idx = 2 /\ Len(instructions) = 3
    /\ instructions[3].action = "extractCode"

(***************************************************************************)
(* C5: a type step whose details lacks a usable selector or text (null,    *)
(* undefined, a string, a number, an object missing a key, an object with  *)
(* an empty selector or text) is skipped without raising and without       *)
(* changing the code or the count, and the loop goes on to the next step.  *)
(***************************************************************************)
C5_MalformedTypeSkipped ==
    [][ (InLoop /\ action = "type" /\ ~UsableTypeDetails(details)) =>
            /\ WentOn
            /\ Effects(Appended) = <<>>
            /\ UNCHANGED <<currentUIcode, iterationCount, files>> ]_vars

(***************************************************************************)
(* C6: a refineCode step whose details has no usable refinement key is a   *)
(* warn-and-continue no-op whether the code is empty or not: it never      *)
(* raises, the provider is not called, the code and the count are          *)
(* unchanged, nothing is written, and the loop goes on to the next step.   *)
(***************************************************************************)
C6_MalformedRefineSkipped ==
    [][ (InLoop /\ action = "refineCode" /\ ~UsableRefinement(details)) =>
            /\ WentOn
            /\ Effects(Appended) = <<>>
            /\ Calls(Appended, {"console.warn"}) # <<>>
            /\ UNCHANGED <<currentUIcode, iterationCount, files>> ]_vars

\* the events that produced a version of the code: an extraction, or a
\* refinement the provider returned from
CodeEvents(l) == SelectSeq(l, LAMBDA e : e.op = "innerHTML" \/ (e.op = "refineUICode" /\ e.ok))

\* the code was last changed by an extractCode step
FollowsExtract == CodeEvents(log) # <<>> /\ CodeEvents(log)[Len(CodeEvents(log))].op = "innerHTML"

\* the markup that extractCode step read
Extracted == CodeEvents(log)[Len(CodeEvents(log))].res

\* the provider is called once with the extracted code and the step's
\* refinement, and what it returns becomes the code and the artifact's content
PassedThroughVerbatim ==
    LET calls == RefineCalls(Appended)
        w == Writes(Appended)
    IN  /\ Len(calls) = 1
        /\ calls[1].a1 = Extracted
        /\ calls[1].a2 = details.f["refinement"]
        /\ calls[1].ok =>
              /\ currentUIcode' = calls[1].res
              /\ Len(w) = 1
              /\ w[1].a2 = calls[1].res
              /\ files'[w[1].a1] = calls[1].res

(***************************************************************************)
(* C7, as stated: when a refineCode step with refinement R follows an      *)
(* extractCode step with no code-changing step between them, the provider  *)
(* is called exactly once with the extracted code and R, unmodified, and   *)
(* what it returns becomes currentCode and the artifact's content.         *)
(***************************************************************************)
C7_Original ==
    [][ (InLoop /\ action = "refineCode" /\ UsableRefinement(details) /\ FollowsExtract) =>
            PassedThroughVerbatim ]_vars

(***************************************************************************)
(* C7, amended: the same, when the extracted code is not the empty string  *)
(* (after an empty extraction the refineCode step is a no-op).             *)
(***************************************************************************)
C7_RoundTripNonEmpty ==
    [][ (InLoop /\ action = "refineCode" /\ UsableRefinement(details) /\ FollowsExtract
            /\ Extracted # "") =>
            PassedThroughVerbatim ]_vars

C7_Witness ==
    LET c == CodeEvents(log)
    IN  /\ Len(c) = 2
        /\ c[1].op = "innerHTML" /\ c[1].res = "<b/>"
        /\ c[2].op = "refineUICode" /\ c[2].a1 = "<b/>" /\ c[2].a2 = "R1" /\ c[2].res = "<d/>"
        /\ currentUIcode = "<d/>"
        /\ files["refined_ui_iteration_1.html"] = "<d/>"

(***************************************************************************)
(* C8: when the Refinement Provider fails, or returns no usable content,   *)
(* the refineCode step is a no-op: the code keeps its value, the count is  *)
(* not incremented, the run is not aborted and the loop goes on.           *)
(***************************************************************************)
C8_FailedRefinementNoOp ==
    [][ (InLoop /\ action = "refineCode" /\ RefineCalls(Appended) # <<>>
            /\ (~RefineCalls(Appended)[1].ok \/ RefineCalls(Appended)[1].res = "")) =>
            /\ currentUIcode' = currentUIcode
            /\ iterationCount' = iterationCount
            /\ files' = files
            /\ WentOn ]_vars

(***************************************************************************)
(* C9: each successful refineCode step writes exactly one artifact, named  *)
(* by the new iterationCount, under a name no earlier write of the run     *)
(* used; no refinement artifact is ever overwritten.                       *)
(***************************************************************************)
C9_OneNewArtifactPerRefinement ==
    [][ /\ (RefineCalls(Appended) # <<>> /\ RefineCalls(Appended)[1].ok) =>
              LET w == Writes(Appended)
              IN  /\ Len(w) = 1
                  /\ iterationCount' = iterationCount + 1
                  /\ w[1].a1 = "refined_ui_iteration_" \o ToString(iterationCount') \o ".html"
                  /\ \A i \in DOMAIN Writes(log) : Writes(log)[i].a1 # w[1].a1
                  /\ w[1].a1 \notin DOMAIN files
                  /\ DOMAIN files' = DOMAIN files \cup { w[1].a1 }
                  /\ files'[w[1].a1] = w[1].a2
        /\ \A f \in DOMAIN files :
              f # "extracted_ui.html" => (f \in DOMAIN files' /\ files'[f] = files[f]) ]_vars

C9_Witness ==
    /\ iterationCount = 2
    /\ DOMAIN files = { "extracted_ui.html", "refined_ui_iteration_1.html", "refined_ui_iteration_2.html" }
    /\ files["refined_ui_iteration_1.html"] # files["refined_ui_iteration_2.html"]

(***************************************************************************)
(* C10: after a run the artifacts hold the first extracted code in one     *)
(* file and each successful refinement's code in its own file, so that     *)
(* every version of the code produced during the run can be read from some *)
(* artifact.                                                               *)
(***************************************************************************)
C10_EveryVersionReadable ==
    pc = "done" =>
        LET c == CodeEvents(log)
            r == SelectSeq(c, LAMBDA e : e.op = "refineUICode")
        IN  /\ c # <<>> =>
                  /\ "extracted_ui.html" \in DOMAIN files
                  /\ files["extracted_ui.html"] = c[1].res
            /\ \A k \in DOMAIN r :
                  LET name == "refined_ui_iteration_" \o ToString(k) \o ".html"
                  IN  name \in DOMAIN files /\ files[name] = r[k].res
            /\ \A i \in DOMAIN c : \E f \in DOMAIN files : files[f] = c[i].res

(***************************************************************************)
(* C11: steps are executed strictly in the order of the list, each at most *)
(* once, a step beginning only after every call of the previous one has    *)
(* resolved or failed; no step is reordered, skipped, repeated or retried, *)
(* and when no step fails fatally every step is processed exactly once     *)
(* before the run finishes.                                                *)
(***************************************************************************)
C11_StepsInOrderOnce ==
    [][ /\ InLoop =>
              /\ \A i \in DOMAIN log : log[i].step < idx
              /\ \A i \in DOMAIN Appended : Appended[i].step = idx
              /\ \/ idx' = idx + 1 /\ pc' = "loop" /\ Appended # <<>>
                 \/ idx' = idx /\ pc' = "threw"
        /\ idx' # idx => idx' = idx + 1
        /\ instructions # <<>> => instructions' = instructions
        /\ (pc # "done" /\ pc' = "done") =>
              /\ idx = Len(instructions) + 1
              /\ \A k \in 1..Len(instructions) : \E i \in DOMAIN log : log[i].step = k
              /\ \A i, j \in DOMAIN log : i <= j => log[i].step <= log[j].step ]_vars

C11_Witness ==
    /\ pc = "done" /\ Len(instructions) = 3
    /\ instructions[1].action = "extractCode"
    /\ instructions[2].action = "refineCode"
    /\ instructions[3].action = "click"
    /\ \E i, j, k \in DOMAIN log :
          /\ i < j /\ j < k
          /\ log[i].op = "innerHTML" /\ log[i].step = 1
          /\ log[j].op = "refineUICode" /\ log[j].step = 2
          /\ log[k].op = "click" /\ log[k].step = 3

\* JSON.parse failed on the Instruction Provider's output
ParseFailed(l) ==
    \E i \in DOMAIN l : l[i].op = "console.error" /\ l[i].a1 = "Failed to parse instructions"

(***************************************************************************)
(* C12: when the Instruction Provider's output does not parse,             *)
(* generateInstructions throws and the run aborts before any browser       *)
(* interaction: no launch, no page call, no artifact, no screenshot.       *)
(***************************************************************************)
C12_ParseFailureAbortsBeforeBrowser ==
    [][ ParseFailed(log') =>
            /\ pc' \in {"threw", "caught"}
            /\ error' = "Invalid JSON from LLM"
            /\ Effects(log') = <<>>
            /\ files' = <<>>
            /\ instructions' = <<>> /\ idx' = 0 ]_vars

C12_Witness ==
    /\ pc = "caught" /\ ParseFailed(log)
    /\ Len(log) = 2 /\ log[2].op = "console.error" /\ log[2].a2 = "Invalid JSON from LLM"

(***************************************************************************)
(* C13: a fatal failure (instruction parse failure, click timeout,         *)
(* extractCode timeout) reaches the top level and the program ends with a  *)
(* non-zero exit status, while a run that completes all its steps ends     *)
(* with status 0.                                                          *)
(***************************************************************************)
C13_FailureExitsNonZero ==
    /\ pc = "caught" => exitCode # 0
    /\ pc = "done" => exitCode = 0

(***************************************************************************)
(* C14: a step whose action is none of navigate, wait, type, click,        *)
(* extractCode, refineCode is skipped with a warning: the run is not       *)
(* aborted, no browser or provider call is made, nothing is written, the   *)
(* code and the count are unchanged, and the loop goes on to the next step.*)
(***************************************************************************)
C14_UnknownActionSkipped ==
    [][ (InLoop /\ action \notin {"navigate", "wait", "type", "click", "extractCode", "refineCode"}) =>
            /\ WentOn
            /\ Len(Appended) = 1
            /\ Appended[1].op = "console.warn" /\ Appended[1].a1 = "Unknown action:"
            /\ UNCHANGED <<currentUIcode, iterationCount, files>> ]_vars

C14_Witness ==
    /\ pc = "loop" /\ idx = 4
    /\ instructions[1].action = "extractCode"
    /\ instructions[2].action = "scroll"
    /\ instructions[3].action = "scroll"
    /\ currentUIcode = "<a/>"
    /\ Len(Calls(log, {"console.warn"})) = 2
    /\ BrowserCalls(log) = Calls(log, {"waitForSelector", "innerHTML"})

(***************************************************************************)
(* C15: at every point of a run currentCode is empty if no extractCode     *)
(* step has succeeded yet, and otherwise is the value produced by the most *)
(* recent extractCode step that read the element or refineCode step whose  *)
(* provider call returned; no other step and no failed step changes it.    *)
(***************************************************************************)
C15_CurrentCodeIsLatest ==
    /\ currentUIcode = ""
    /\ [][ /\ currentUIcode' =
                IF \A i \in DOMAIN log' : log'[i].op # "innerHTML" THEN ""
                ELSE CodeEvents(log')[Len(CodeEvents(log'))].res
           /\ currentUIcode' # currentUIcode =>
                /\ InLoop /\ action \in {"extractCode", "refineCode"}
                /\ CodeEvents(Appended) # <<>>
                /\ pc' = "loop" ]_vars

C15_Witness ==
    /\ pc = "caught" /\ error = "APIError"
    /\ Len(CodeEvents(log)) = 2
    /\ CodeEvents(log)[1].res = "<a/>"
    /\ CodeEvents(log)[2].op = "refineUICode" /\ CodeEvents(log)[2].res = "<c/>"
    /\ Len(RefineCalls(log)) = 2
    /\ currentUIcode = "<c/>"

ExtractTimedOut(l) == \E i \in DOMAIN l : l[i].op = "waitForSelector" /\ ~l[i].ok

(***************************************************************************)
(* C16: an extractCode step whose selector does not resolve within the     *)
(* bound is fatal and leaves the state as it was: the code and the count   *)
(* keep their values, the extraction artifact is neither written nor       *)
(* overwritten by the step, and no later step is executed.                 *)
(***************************************************************************)
C16_ExtractTimeoutAborts ==
    [][ /\ (InLoop /\ action = "extractCode" /\ ExtractTimedOut(Appended)) =>
              /\ pc' = "threw" /\ idx' = idx /\ error' = "TimeoutError"
              /\ Len(Appended) = 1
              /\ UNCHANGED <<currentUIcode, iterationCount, files>>
        /\ ExtractTimedOut(log) =>
              /\ pc \in {"threw", "caught"} /\ pc' \in {"threw", "caught"}
              /\ Effects(Appended) = <<>>
              /\ UNCHANGED <<idx, instructions, currentUIcode, iterationCount, files>> ]_vars

C16_Witness ==
    /\ pc = "caught" /\ ExtractTimedOut(log)
    /\ idx = 2 /\ Len(instructions) = 3
    /\ instructions[1].action = "extractCode"
    /\ instructions[3].action = "refineCode" /\ UsableRefinement(instructions[3].details)
    /\ currentUIcode = "<a/>"
    /\ files = ("extracted_ui.html" :> "<a/>")

\* the screenshots taken
Shots(l) == Calls(l, {"screenshot"})

\* the final code was reported
FinalCodeReported(l) == \E i \in DOMAIN l : l[i].op = "console.log" /\ l[i].a1 = "Final refined UI code:"

(***************************************************************************)
(* C17: the final screenshot is captured exactly once, and only after the  *)
(* last step of the list has been processed; when a step fails fatally the *)
(* screenshot is never captured and the final code is not reported; a run  *)
(* over an empty list still captures the screenshot.                       *)
(***************************************************************************)
C17_ScreenshotOnceAtEnd ==
    [][ /\ Len(Shots(log')) <= 1
        /\ (pc' = "done") <=> (Shots(log') # <<>>)
        /\ Shots(Appended) # <<>> =>
              /\ pc = "loop" /\ idx = Len(instructions) + 1
              /\ \A k \in 1..Len(instructions) : \E i \in DOMAIN log : log[i].step = k
              /\ Shots(log) = <<>>
        /\ pc' \in {"threw", "caught"} =>
              /\ Shots(log') = <<>>
              /\ ~FinalCodeReported(log')
        /\ FinalCodeReported(log') => (pc' = "done" /\ currentUIcode' # "") ]_vars

C17_Witness ==
    /\ pc = "done" /\ instructions = <<>>
    /\ Len(Shots(log)) = 1
    /\ log[Len(log)].op = "screenshot"
    /\ ~FinalCodeReported(log)

(***************************************************************************)
(* C18: at every point of a run the refinement artifacts written so far    *)
(* are exactly the files numbered 1..iterationCount, with no gaps, and     *)
(* iterationCount > 0 implies that an earlier extractCode step of the run  *)
(* succeeded and read non-empty markup.                                    *)
(***************************************************************************)
C18_RefinedArtifactsNumbered ==
    LET numbered == { "refined_ui_iteration_" \o ToString(k) \o ".html" : k \in 1..iterationCount }
        written == { Writes(log)[i].a1 : i \in DOMAIN Writes(log) } \ { "extracted_ui.html" }
    IN  /\ written = numbered
        /\ DOMAIN files \ { "extracted_ui.html" } = numbered
        /\ Len(Calls(log, {"refineUICode"})) >= iterationCount
        /\ iterationCount > 0 =>
              \E i, j \in DOMAIN log :
                  /\ i < j
                  /\ log[i].op = "innerHTML" /\ log[i].res # ""
                  /\ log[j].op = "refineUICode" /\ log[j].ok
                  /\ \A k \in 1..(j - 1) : log[k].op # "refineUICode"

C18_Witness ==
    /\ pc = "done" /\ iterationCount = 2
    /\ currentUIcode = ""
    /\ DOMAIN files = { "extracted_ui.html", "refined_ui_iteration_1.html", "refined_ui_iteration_2.html" }

(***************************************************************************)
(* C19: navigate, wait, type and click steps, whether they succeed, are    *)
(* skipped or fail, never change the code or the count, never call the     *)
(* Refinement Provider and never write a code artifact; only extractCode   *)
(* and refineCode steps do.                                                *)
(***************************************************************************)
C19_OnlyCodeStepsTouchCode ==
    [][ /\ (InLoop /\ action \in {"navigate", "wait", "type", "click"}) =>
              /\ UNCHANGED <<currentUIcode, iterationCount, files>>
              /\ RefineCalls(Appended) = <<>>
              /\ Writes(Appended) = <<>>
        /\ (\/ currentUIcode' # currentUIcode
            \/ iterationCount' # iterationCount
            \/ files' # files
            \/ RefineCalls(Appended) # <<>>
            \/ Writes(Appended) # <<>>) =>
              (InLoop /\ action \in {"extractCode", "refineCode"}) ]_vars

C19_Witness ==
    /\ pc = "caught" /\ error = "TimeoutError"
    /\ Len(instructions) = 3 /\ idx = 3
    /\ instructions[1].action = "extractCode"
    /\ instructions[2].action = "navigate"
    /\ instructions[3].action = "type"
    /\ Len(Calls(log, {"goto", "fill"})) = 2
    /\ currentUIcode = "<b/>"
    /\ files = ("extracted_ui.html" :> "<b/>")

====
